---- MODULE Spec2Model ----
(***************************************************************************)
(* SmallBox<T, Space> (src/src/smallbox.rs): a box that stores its value   *)
(* in its own inline buffer when the value fits the capacity type Space,   *)
(* and in one heap allocation otherwise.                                   *)
(*                                                                         *)
(* The model keeps two program variables ("slots"), each of which can     *)
(* hold one SmallBox; the global allocator's blocks; and ghost counters    *)
(* for destructor runs and allocator calls.                                *)
(***************************************************************************)
EXTENDS Integers, Sequences, FiniteSets, TLC

\* ---------------------------------------------------------------- bounds
\* the allocator's memory is the addresses 1..MaxAddr
MaxAddr == 5
\* values of one type are told apart by a seed 1..MaxData
MaxData == 1

\* ------------------------------------------------------- program constants
\* const INLINE_SENTINEL: *mut u8 = without_provenance_mut(0x1)
INLINE_SENTINEL == 1
\* const MIN_ALIGNMENT: usize = 2
MIN_ALIGNMENT == 2

\* the program variables that can hold a SmallBox
Slots == {"a", "b"}
Data == 1..MaxData

\* ------------------------------------------------------------ the types
\* Concrete value types U, by (size, align):
\*   Unit (), Zst2 #[repr(align(2))] struct, U8, U16
TypeNames == {"Unit", "Zst2", "U8", "U16"}

size_of(t) ==
    CASE t = "Unit" -> 0
      [] t = "Zst2" -> 0
      [] t = "U8"   -> 1
      [] t = "U16"  -> 2

align_of(t) ==
    CASE t = "Unit" -> 1
      [] t = "Zst2" -> 2
      [] t = "U8"   -> 1
      [] t = "U16"  -> 2

\* Capacity types Space, by (size, align):
\*   ZSpace (unit struct), [u8; 2], u16, [u8; 4]
SpaceNames == {"ZSpace", "B2", "H2", "B4"}

space_size(sp) ==
    CASE sp = "ZSpace" -> 0
      [] sp = "B2"     -> 2
      [] sp = "H2"     -> 2
      [] sp = "B4"     -> 4

space_align(sp) ==
    CASE sp = "ZSpace" -> 1
      [] sp = "B2"     -> 1
      [] sp = "H2"     -> 2
      [] sp = "B4"     -> 1

\* The two type-erased static types that have a downcast
Erased == {"dynAny", "dynAnySend"}

\* Layout::new::<U>()
Layout(t) == [size |-> size_of(t), align |-> align_of(t)]

\* Layout::new::<Space>()
SpaceLayout(sp) == [size |-> space_size(sp), align |-> space_align(sp)]

Max(a, b) == IF a >= b THEN a ELSE b

\* Layout::align_to(align): same size, alignment raised to at least align
align_to(layout, align) == [size |-> layout.size, align |-> Max(layout.align, align)]

\* ------------------------------------------------------------- the bytes
\* An uninitialised buffer of n bytes (0 marks an uninitialised byte).
uninit(n) == [i \in 1..n |-> 0]

\* The bytes of a value: every byte differs by position and by seed.
bytes_of(v) == [i \in 1..size_of(v.ty) |-> 10 * v.d + i]

\* ptr::copy_nonoverlapping(src, dst, n): the first n bytes of dst become
\* the first n bytes of src
copy_nonoverlapping(src, dst, n) ==
    [i \in 1..Len(dst) |-> IF i <= n THEN src[i] ELSE dst[i]]

\* ---------------------------------------------------------- the allocator
\* heap is the set of outstanding blocks [addr, size, align, bytes]
Overlaps(blk, a, size) ==
    /\ a <= blk.addr + blk.size - 1
    /\ blk.addr <= a + size - 1

\* alloc::alloc(layout): null (0), or any free address aligned for layout
alloc(h, layout) ==
    {0} \cup {a \in 1..MaxAddr :
                /\ a % layout.align = 0
                /\ a + layout.size - 1 <= MaxAddr
                /\ \A blk \in h : ~Overlaps(blk, a, layout.size)}

BlockAt(h, a) == {blk \in h : blk.addr = a}

\* alloc::dealloc(ptr, layout) is defined only for a block that alloc gave
\* out with this very layout and that is still outstanding
dealloc_ok(h, a, layout) ==
    \E blk \in BlockAt(h, a) : blk.size = layout.size /\ blk.align = layout.align

dealloc(h, a, layout) == h \ BlockAt(h, a)

\* ---------------------------------------------------------- the container
\* struct SmallBox<T, Space> { space, ptr, _phantom }:
\*   T     the static type parameter (a concrete type or an erased one)
\*   space the capacity type, buf the bytes of the `space` field
\*   ptr   the address part of `ptr`, meta its metadata part
NoBox == [T |-> "none", space |-> "none", buf |-> <<>>, ptr |-> 0, meta |-> "none"]

\* the metadata of a *const T made from a value of concrete type U:
\* the vtable of U for a trait object, nothing for a sized T
metadata(T, U) == IF T \in Erased THEN U ELSE "thin"

\* ptr: NonNull<T>: the null address is no value of the field, which leaves
\* it to Option for None
ptr_niche == TRUE

\* the words of a *mut T: the address, and the metadata of an unsized T
ptr_size(T) == IF T \in Erased THEN 2 ELSE 1

\* mem::size_of::<SmallBox<T, Space>>(), padding left aside
box_size(T, Space) == space_size(Space) + ptr_size(T)

\* mem::size_of::<Option<SmallBox<T, Space>>>(): a tag is added only when the
\* box has no niche
option_size(T, Space) == box_size(T, Space) + (IF ptr_niche THEN 0 ELSE 1)

\* Option::is_some on the bytes of Some(b): None is the null address in ptr
option_is_some(b) == b.ptr # 0

\* self.ptr.as_ptr().cast::<u8>() != INLINE_SENTINEL
is_heap(b) == b.ptr # INLINE_SENTINEL

\* the concrete type of the value behind the box, as the pointer knows it
runtime_type(b) == IF b.T \in Erased THEN b.meta ELSE b.T

\* Layout::for_value::<T>(&*self)
for_value(b) == Layout(runtime_type(b))

\* Reading n bytes at a heap address (garbage when no block is there)
read_heap(h, a, n) ==
    IF n = 0 THEN <<>>
    ELSE IF BlockAt(h, a) = {} THEN uninit(n)
    ELSE LET blk == CHOOSE x \in BlockAt(h, a) : TRUE
         IN  [i \in 1..n |-> IF i <= blk.size THEN blk.bytes[i] ELSE 0]

\* mutant: the stored address is used even when it is the sentinel
as_ptr_stored_always(b) == [at |-> "heap", addr |-> b.ptr, meta |-> b.meta]

\* as_ptr / as_mut_ptr: the place the value is read and written at, the
\* `space` field of the box itself when the address part of ptr is the
\* sentinel, the stored address otherwise, in both cases with the metadata
\* of ptr
as_ptr(b) ==
    IF is_heap(b)
    THEN [at |-> "heap", addr |-> b.ptr, meta |-> b.meta]
    ELSE [at |-> "space", addr |-> 0, meta |-> b.meta]

\* Deref: the bytes of the value at as_ptr()
deref(b, h) ==
    LET p == as_ptr(b)
    IN  IF p.at = "heap"
        THEN read_heap(h, p.addr, for_value(b).size)
        ELSE SubSeq(b.buf, 1, for_value(b).size)

\* mutant: the size test is strict
fits_inline_strict(layout, space_layout) ==
    layout.size < space_layout.size /\ layout.align <= space_layout.align

\* mutant: the alignment test is strict
fits_inline_align_strict(layout, space_layout) ==
    layout.size <= space_layout.size /\ layout.align < space_layout.align

\* mutant: the alignment test is missing
fits_inline_size_only(layout, space_layout) ==
    layout.size <= space_layout.size

\* the condition of the "Stack." branch of new_copy
fits_inline(layout, space_layout) ==
    layout.size <= space_layout.size /\ layout.align <= space_layout.align

\* mutant: the alignment of the allocation is not raised to MIN_ALIGNMENT
heap_layout_unraised(layout) == layout

\* the layout new_copy allocates with on the "Heap." branch
heap_layout(layout) == align_to(layout, MIN_ALIGNMENT)

\* An operation's outcome: ok is FALSE when handle_alloc_error ended the
\* process; ev lists the destructor runs ("dtor") and the allocator calls it
\* made ("alloc", "alloc_null" for a call that returned null, "dealloc").
Outcome(ok, b, h, ev) == [ok |-> ok, box |-> b, heap |-> h, ev |-> ev]

\* mutant: the value's bytes are not copied into the heap block
new_copy_heap_uncopied(src, layout, meta, T, Space, h) ==
    IF fits_inline(layout, SpaceLayout(Space))
    THEN {Outcome(TRUE,
                  [T |-> T, space |-> Space,
                   buf |-> copy_nonoverlapping(src, uninit(space_size(Space)), layout.size),
                   ptr |-> INLINE_SENTINEL, meta |-> meta],
                  h, <<>>)}
    ELSE IF layout.size = 0
    THEN {Outcome(TRUE,
                  [T |-> T, space |-> Space, buf |-> uninit(space_size(Space)),
                   ptr |-> layout.align, meta |-> meta],
                  h, <<>>)}
    ELSE LET hl == heap_layout(layout)
         IN  {IF a = 0
              THEN Outcome(FALSE, NoBox, h, <<"alloc_null">>)
              ELSE Outcome(TRUE,
                           [T |-> T, space |-> Space, buf |-> uninit(space_size(Space)),
                            ptr |-> a, meta |-> meta],
                           h \cup {[addr |-> a, size |-> hl.size, align |-> hl.align,
                                    bytes |-> uninit(hl.size)]},
                           <<"alloc">>)
              : a \in alloc(h, hl)}

\* mutant: the null test after alloc is missing
new_copy_null_unchecked(src, layout, meta, T, Space, h) ==
    IF fits_inline(layout, SpaceLayout(Space))
    THEN {Outcome(TRUE,
                  [T |-> T, space |-> Space,
                   buf |-> copy_nonoverlapping(src, uninit(space_size(Space)), layout.size),
                   ptr |-> INLINE_SENTINEL, meta |-> meta],
                  h, <<>>)}
    ELSE IF layout.size = 0
    THEN {Outcome(TRUE,
                  [T |-> T, space |-> Space, buf |-> uninit(space_size(Space)),
                   ptr |-> layout.align, meta |-> meta],
                  h, <<>>)}
    ELSE LET hl == heap_layout(layout)
         IN  {IF a = 0
              THEN Outcome(TRUE,
                           [T |-> T, space |-> Space, buf |-> uninit(space_size(Space)),
                            ptr |-> a, meta |-> meta],
                           h, <<"alloc_null">>)
              ELSE Outcome(TRUE,
                           [T |-> T, space |-> Space, buf |-> uninit(space_size(Space)),
                            ptr |-> a, meta |-> meta],
                           h \cup {[addr |-> a, size |-> hl.size, align |-> hl.align,
                                    bytes |-> copy_nonoverlapping(src, uninit(hl.size), layout.size)]},
                           <<"alloc">>)
              : a \in alloc(h, hl)}

\* mutant: the inline path marks the box with the null address
new_copy_null_sentinel(src, layout, meta, T, Space, h) ==
    IF fits_inline(layout, SpaceLayout(Space))
    THEN {Outcome(TRUE,
                  [T |-> T, space |-> Space,
                   buf |-> copy_nonoverlapping(src, uninit(space_size(Space)), layout.size),
                   ptr |-> 0, meta |-> meta],
                  h, <<>>)}
    ELSE IF layout.size = 0
    THEN {Outcome(TRUE,
                  [T |-> T, space |-> Space, buf |-> uninit(space_size(Space)),
                   ptr |-> layout.align, meta |-> meta],
                  h, <<>>)}
    ELSE LET hl == heap_layout(layout)
         IN  {IF a = 0
              THEN Outcome(FALSE, NoBox, h, <<"alloc_null">>)
              ELSE Outcome(TRUE,
                           [T |-> T, space |-> Space, buf |-> uninit(space_size(Space)),
                            ptr |-> a, meta |-> meta],
                           h \cup {[addr |-> a, size |-> hl.size, align |-> hl.align,
                                    bytes |-> copy_nonoverlapping(src, uninit(hl.size), layout.size)]},
                           <<"alloc">>)
              : a \in alloc(h, hl)}

\* mutant: the zero-size case is missing, so a zero-sized value that does
\* not fit goes to the allocator
new_copy_zst_allocs(src, layout, meta, T, Space, h) ==
    IF fits_inline(layout, SpaceLayout(Space))
    THEN {Outcome(TRUE,
                  [T |-> T, space |-> Space,
                   buf |-> copy_nonoverlapping(src, uninit(space_size(Space)), layout.size),
                   ptr |-> INLINE_SENTINEL, meta |-> meta],
                  h, <<>>)}
    ELSE LET hl == heap_layout(layout)
         IN  {IF a = 0
              THEN Outcome(FALSE, NoBox, h, <<"alloc_null">>)
              ELSE Outcome(TRUE,
                           [T |-> T, space |-> Space, buf |-> uninit(space_size(Space)),
                            ptr |-> a, meta |-> meta],
                           h \cup {[addr |-> a, size |-> hl.size, align |-> hl.align,
                                    bytes |-> copy_nonoverlapping(src, uninit(hl.size), layout.size)]},
                           <<"alloc">>)
              : a \in alloc(h, hl)}

\* unsafe fn new_copy<U>(val: &U, metadata_ptr: *const T) -> SmallBox<T, Space>
\*   src/layout: the bytes and the layout of val; meta: metadata_ptr's metadata
new_copy(src, layout, meta, T, Space, h) ==
    IF fits_inline(layout, SpaceLayout(Space))
    THEN {Outcome(TRUE,
                  [T |-> T, space |-> Space,
                   buf |-> copy_nonoverlapping(src, uninit(space_size(Space)), layout.size),
                   ptr |-> INLINE_SENTINEL, meta |-> meta],
                  h, <<>>)}
    ELSE IF layout.size = 0
    THEN {Outcome(TRUE,
                  [T |-> T, space |-> Space, buf |-> uninit(space_size(Space)),
                   ptr |-> layout.align, meta |-> meta],
                  h, <<>>)}
    ELSE LET hl == heap_layout(layout)
         IN  {IF a = 0
              THEN Outcome(FALSE, NoBox, h, <<"alloc_null">>)
              ELSE Outcome(TRUE,
                           [T |-> T, space |-> Space, buf |-> uninit(space_size(Space)),
                            ptr |-> a, meta |-> meta],
                           h \cup {[addr |-> a, size |-> hl.size, align |-> hl.align,
                                    bytes |-> copy_nonoverlapping(src, uninit(hl.size), layout.size)]},
                           <<"alloc">>)
              : a \in alloc(h, hl)}

\* pub unsafe fn new_unchecked<U>(val: U, ptr: *const T): val is wrapped in
\* ManuallyDrop, so its destructor does not run when new_unchecked returns
new_unchecked(v, T, Space, h) ==
    new_copy(bytes_of(v), Layout(v.ty), metadata(T, v.ty), T, Space, h)

\* mutant: self is not wrapped in ManuallyDrop, so the old box is dropped
\* when resize returns
resize_drops_self(b, ToSpace, h) ==
    IF is_heap(b)
    THEN {Outcome(TRUE,
                  [T |-> b.T, space |-> ToSpace, buf |-> uninit(space_size(ToSpace)),
                   ptr |-> b.ptr, meta |-> b.meta],
                  h, <<"dtor">>)}
    ELSE {Outcome(r.ok, r.box, r.heap, r.ev \o <<"dtor">>) :
            r \in new_copy(deref(b, h), for_value(b), b.meta, b.T, ToSpace, h)}

\* mutant: a heap placed box is copied into the new capacity like an inline one
resize_always_copy(b, ToSpace, h) ==
    new_copy(deref(b, h), for_value(b), b.meta, b.T, ToSpace, h)

\* mutant: a capacity the value does not fit is refused and self handed back
\* (as StackBox::resize does)
resize_err_when_small(b, ToSpace, h) ==
    IF is_heap(b)
    THEN {Outcome(TRUE,
                  [T |-> b.T, space |-> ToSpace, buf |-> uninit(space_size(ToSpace)),
                   ptr |-> b.ptr, meta |-> b.meta],
                  h, <<>>)}
    ELSE IF for_value(b).size > space_size(ToSpace)
    THEN {Outcome(TRUE, b, h, <<>>)}
    ELSE new_copy(deref(b, h), for_value(b), b.meta, b.T, ToSpace, h)

\* mutant: the inline branch takes the metadata of another value than self's
resize_loses_metadata(b, ToSpace, h) ==
    IF is_heap(b)
    THEN {Outcome(TRUE,
                  [T |-> b.T, space |-> ToSpace, buf |-> uninit(space_size(ToSpace)),
                   ptr |-> b.ptr, meta |-> b.meta],
                  h, <<>>)}
    ELSE new_copy(deref(b, h), for_value(b), metadata(b.T, "Unit"), b.T, ToSpace, h)

\* pub fn resize<ToSpace>(self) -> SmallBox<T, ToSpace>: self is wrapped in
\* ManuallyDrop, so the old box is not dropped
resize(b, ToSpace, h) ==
    IF is_heap(b)
    THEN {Outcome(TRUE,
                  [T |-> b.T, space |-> ToSpace, buf |-> uninit(space_size(ToSpace)),
                   ptr |-> b.ptr, meta |-> b.meta],
                  h, <<>>)}
    ELSE new_copy(deref(b, h), for_value(b), b.meta, b.T, ToSpace, h)

\* mutant: the heap block is never released
drop_leaks(b, h) == Outcome(TRUE, NoBox, h, <<"dtor">>)

\* mutant: the field is declared `space: Space`, so that the drop glue of
\* the box runs the capacity type's destructor on the buffer
space_glue_drops_space == <<"space_dtor">>

\* the drop glue of the field `space: MaybeUninit<UnsafeCell<Space>>`, run
\* after Drop::drop whenever a box is dropped: MaybeUninit has none
space_glue == <<>>

\* mutant: the deallocation does not test the layout's size
drop_frees_zst(b, h) ==
    LET layout == align_to(for_value(b), MIN_ALIGNMENT)
    IN  IF is_heap(b)
        THEN Outcome(dealloc_ok(h, b.ptr, layout), NoBox,
                     dealloc(h, b.ptr, layout), <<"dtor", "dealloc">> \o space_glue)
        ELSE Outcome(TRUE, NoBox, h, <<"dtor">> \o space_glue)

\* mutant: the block is released before the value's destructor runs
drop_frees_first(b, h) ==
    LET layout == align_to(for_value(b), MIN_ALIGNMENT)
    IN  IF is_heap(b) /\ layout.size # 0
        THEN Outcome(dealloc_ok(h, b.ptr, layout), NoBox,
                     dealloc(h, b.ptr, layout), <<"dealloc", "dtor">> \o space_glue)
        ELSE Outcome(TRUE, NoBox, h, <<"dtor">> \o space_glue)

\* impl Drop: drop_in_place on the value, then dealloc when the box is heap
\* placed and the layout's size is not zero; the fields' drop glue follows
drop(b, h) ==
    LET layout == align_to(for_value(b), MIN_ALIGNMENT)
    IN  IF is_heap(b) /\ layout.size # 0
        THEN Outcome(dealloc_ok(h, b.ptr, layout), NoBox,
                     dealloc(h, b.ptr, layout), <<"dtor", "dealloc">> \o space_glue)
        ELSE Outcome(TRUE, NoBox, h, <<"dtor">> \o space_glue)

\* Any::is::<U>(): the type id behind the vtable against TypeId::of::<U>()
is(b, U) == runtime_type(b) = U

\* unsafe fn downcast_unchecked<U: Any>(self) -> SmallBox<U, Space>: copies
\* size_of::<U>() bytes of the inline buffer when the box is not heap placed,
\* casts the pointer (the address stays, the metadata goes), forgets self
downcast_unchecked(b, U) ==
    [T |-> U, space |-> b.space,
     buf |-> IF ~is_heap(b)
             THEN copy_nonoverlapping(b.buf, uninit(space_size(b.space)), size_of(U))
             ELSE uninit(space_size(b.space)),
     ptr |-> b.ptr, meta |-> "thin"]

\* mutant: downcast_unchecked does not forget self, so the old box is dropped
downcast_drops_self(b, U, h) ==
    IF is(b, U)
    THEN LET r == drop(b, h)
         IN  [res |-> "Ok", box |-> downcast_unchecked(b, U), heap |-> r.heap,
              ev |-> r.ev, ok |-> r.ok]
    ELSE [res |-> "Err", box |-> b, heap |-> h, ev |-> <<>>, ok |-> TRUE]

\* mutant: a mismatch still retypes the box before handing it back
downcast_err_consumes(b, U, h) ==
    IF is(b, U)
    THEN [res |-> "Ok", box |-> downcast_unchecked(b, U), heap |-> h, ev |-> <<>>, ok |-> TRUE]
    ELSE [res |-> "Err", box |-> downcast_unchecked(b, U), heap |-> h, ev |-> <<>>, ok |-> TRUE]

\* pub fn downcast<T: Any>(self) -> Result<SmallBox<T, Space>, Self>
\* (the impl for dyn Any and the one for dyn Any + Send are the same code)
downcast(b, U, h) ==
    IF is(b, U)
    THEN [res |-> "Ok", box |-> downcast_unchecked(b, U), heap |-> h, ev |-> <<>>, ok |-> TRUE]
    ELSE [res |-> "Err", box |-> b, heap |-> h, ev |-> <<>>, ok |-> TRUE]

\* mutant: the value is read from the inline buffer whatever the placement
into_inner_reads_space(b, h) ==
    LET ret_val == SubSeq(b.buf \o uninit(size_of(b.T)), 1, size_of(b.T))
        layout == align_to(Layout(b.T), MIN_ALIGNMENT)
    IN  IF is_heap(b) /\ size_of(b.T) # 0
        THEN [ok |-> dealloc_ok(h, b.ptr, layout), ret |-> ret_val,
              heap |-> dealloc(h, b.ptr, layout), ev |-> <<"dealloc">>]
        ELSE [ok |-> TRUE, ret |-> ret_val, heap |-> h, ev |-> <<>>]

\* mutant: self is not wrapped in ManuallyDrop, so the box is dropped when
\* into_inner returns
into_inner_drops_self(b, h) ==
    LET ret_val == deref(b, h)
        layout == align_to(Layout(b.T), MIN_ALIGNMENT)
    IN  IF is_heap(b) /\ size_of(b.T) # 0
        THEN [ok |-> FALSE, ret |-> ret_val,
              heap |-> dealloc(h, b.ptr, layout), ev |-> <<"dealloc">> \o drop(b, h).ev]
        ELSE [ok |-> TRUE, ret |-> ret_val, heap |-> h, ev |-> drop(b, h).ev]

\* mutant: the layout passed to dealloc is not raised to MIN_ALIGNMENT
into_inner_layout_unraised(b, h) ==
    LET ret_val == deref(b, h)
        layout == Layout(b.T)
    IN  IF is_heap(b) /\ size_of(b.T) # 0
        THEN [ok |-> dealloc_ok(h, b.ptr, layout), ret |-> ret_val,
              heap |-> dealloc(h, b.ptr, layout), ev |-> <<"dealloc">>]
        ELSE [ok |-> TRUE, ret |-> ret_val, heap |-> h, ev |-> <<>>]

\* pub fn into_inner(self) -> T: reads the value out, then deallocates the
\* heap block without dropping the value; self is wrapped in ManuallyDrop
into_inner(b, h) ==
    LET ret_val == deref(b, h)
        layout == align_to(Layout(b.T), MIN_ALIGNMENT)
    IN  IF is_heap(b) /\ size_of(b.T) # 0
        THEN [ok |-> dealloc_ok(h, b.ptr, layout), ret |-> ret_val,
              heap |-> dealloc(h, b.ptr, layout), ev |-> <<"dealloc">>]
        ELSE [ok |-> TRUE, ret |-> ret_val, heap |-> h, ev |-> <<>>]

\* mutant: the clone is a bitwise copy of the box
clone_shares_ptr(b, h) == {Outcome(TRUE, b, h, <<>>)}

\* impl Clone: SmallBox::new(val.clone()) with the same T and Space
clone(b, h) ==
    new_copy(deref(b, h), Layout(b.T), metadata(b.T, b.T), b.T, b.space, h)

\* the integer a value of the model's types is, read from its bytes
RECURSIVE int_of(_)
int_of(bs) == IF bs = <<>> THEN 0 ELSE Head(bs) + 256 * int_of(Tail(bs))

\* PartialEq::eq of the wrapped type, on two values given by their bytes
value_eq(x, y) == int_of(x) = int_of(y)

\* Ord::cmp / PartialOrd::partial_cmp of the wrapped type
value_cmp(x, y) ==
    IF int_of(x) < int_of(y) THEN "Less"
    ELSE IF int_of(x) = int_of(y) THEN "Equal" ELSE "Greater"

\* Hash::hash of the wrapped type: the value's bytes are fed to the hasher,
\* whose state is kept in one byte here
RECURSIVE value_hash(_, _)
value_hash(x, state) ==
    IF x = <<>> THEN state
    ELSE value_hash(Tail(x), (31 * state + Head(x)) % 256)

\* mutant: boxes are equal only when they are also placed alike
eq_by_place(a, b, h) ==
    value_eq(deref(a, h), deref(b, h)) /\ (is_heap(a) <=> is_heap(b))

\* impl PartialEq: PartialEq::eq(&**self, &**other)
eq(a, b, h) == value_eq(deref(a, h), deref(b, h))

\* impl PartialOrd: PartialOrd::partial_cmp(&**self, &**other)
partial_cmp(a, b, h) == value_cmp(deref(a, h), deref(b, h))

\* impl Ord: Ord::cmp(&**self, &**other)
cmp(a, b, h) == value_cmp(deref(a, h), deref(b, h))

\* impl Hash: (**self).hash(state)
hash(a, h, state) == value_hash(deref(a, h), state)

\* ------------------------------------------------------------- the state
VARIABLES
    boxes,    \* slot -> the SmallBox it holds (NoBox when it holds none)
    status,   \* slot -> "empty", "live", "dropped"
    val,      \* ghost: slot -> the value that was moved into the box (or was
              \* being moved when the process was ended)
    heap,     \* the allocator's outstanding blocks
    drops,    \* ghost: slot -> how often the value's destructor has run
    allocs,   \* ghost: slot -> blocks the allocator gave out for the slot's box
    frees,    \* ghost: slot -> deallocator calls made for the slot's box
    last,     \* ghost: the last operation, its slot, argument and result
    out,      \* slot -> the bytes into_inner returned from the slot's box
    aborted,  \* handle_alloc_error has ended the process
    ub,       \* a deallocator call did not match an outstanding block
    stk,      \* slot -> the StackBox it holds, with its ghost record
    slast     \* ghost: the last StackBox operation

vars == <<boxes, status, val, heap, drops, allocs, frees, last, out, aborted, ub,
          stk, slast>>

\* the state of the SmallBox programs, and that of the StackBox programs
boxvars == <<boxes, status, val, heap, drops, allocs, frees, last, out, aborted, ub>>
stackvars == <<stk, slast>>

\* struct StackBox<T, Space> { space, meta, _phantom }: buf is the bytes of
\* the `space` field; NoStack stands for a variable that holds none
NoStack == [T |-> "none", space |-> "none", buf |-> <<>>, meta |-> "none"]

\* a slot of the StackBox programs: the box, and as ghosts the value moved
\* in, the runs of its destructor and the value an Err handed back
StackSlot(st, b, v, n, r) == [status |-> st, box |-> b, val |-> v, drops |-> n, ret |-> r]

SLast(op, s, arg, res, before, ev) ==
    [op |-> op, s |-> s, arg |-> arg, res |-> res, before |-> before, ev |-> ev]

NoVal == [ty |-> "none", d |-> 0]

Count(ev, e) == Cardinality({i \in 1..Len(ev) : ev[i] = e})

Last(op, s, arg, res, wasHeap, ev) ==
    [op |-> op, s |-> s, arg |-> arg, res |-> res, wasHeap |-> wasHeap, ev |-> ev]

Init ==
    /\ boxes = [s \in Slots |-> NoBox]
    /\ status = [s \in Slots |-> "empty"]
    /\ val = [s \in Slots |-> NoVal]
    /\ heap = {}
    /\ drops = [s \in Slots |-> 0]
    /\ allocs = [s \in Slots |-> 0]
    /\ frees = [s \in Slots |-> 0]
    /\ last = Last("init", "none", "none", "none", FALSE, <<>>)
    /\ out = [s \in Slots |-> <<>>]
    /\ aborted = FALSE
    /\ ub = FALSE
    /\ stk = [s \in Slots |-> StackSlot("empty", NoStack, NoVal, 0, <<>>)]
    /\ slast = SLast("init", "none", "none", "none", NoStack, <<>>)

\* the ghost counters after an operation on slot s that made the events ev
Counted(s, ev) ==
    /\ drops' = [drops EXCEPT ![s] = @ + Count(ev, "dtor")]
    /\ allocs' = [allocs EXCEPT ![s] = @ + Count(ev, "alloc")]
    /\ frees' = [frees EXCEPT ![s] = @ + Count(ev, "dealloc")]

\* let b: SmallBox<T, Space> = SmallBox::new(v) / smallbox!(v)
New(s, v, T, Space) ==
    /\ ~aborted
    /\ UNCHANGED stackvars
    /\ status[s] = "empty"
    /\ \E r \in new_unchecked(v, T, Space, heap) :
         /\ Counted(s, r.ev)
         /\ last' = Last("new", s, Space, IF r.ok THEN "ok" ELSE "abort", FALSE, r.ev)
         /\ IF r.ok
            THEN /\ boxes' = [boxes EXCEPT ![s] = r.box]
                 /\ status' = [status EXCEPT ![s] = "live"]
                 /\ val' = [val EXCEPT ![s] = v]
                 /\ heap' = r.heap
                 /\ UNCHANGED <<out, aborted, ub>>
            ELSE /\ aborted' = TRUE
                 /\ val' = [val EXCEPT ![s] = v]
                 /\ UNCHANGED <<boxes, status, heap, out, ub>>

\* let b = b.resize::<ToSpace>()
Resize(s, ToSpace) ==
    /\ ~aborted
    /\ UNCHANGED stackvars
    /\ status[s] = "live"
    /\ \E r \in resize(boxes[s], ToSpace, heap) :
         /\ Counted(s, r.ev)
         /\ last' = Last("resize", s, ToSpace, IF r.ok THEN "ok" ELSE "abort",
                         is_heap(boxes[s]), r.ev)
         /\ IF r.ok
            THEN /\ boxes' = [boxes EXCEPT ![s] = r.box]
                 /\ heap' = r.heap
                 /\ UNCHANGED <<status, val, out, aborted, ub>>
            ELSE /\ aborted' = TRUE
                 /\ UNCHANGED <<boxes, status, val, heap, out, ub>>

\* drop(b)
Drop(s) ==
    /\ ~aborted
    /\ UNCHANGED stackvars
    /\ status[s] = "live"
    /\ LET r == drop(boxes[s], heap)
       IN  /\ Counted(s, r.ev)
           /\ last' = Last("drop", s, boxes[s].space, "ok", is_heap(boxes[s]), r.ev)
           /\ boxes' = [boxes EXCEPT ![s] = NoBox]
           /\ status' = [status EXCEPT ![s] = "dropped"]
           /\ heap' = r.heap
           /\ ub' = (ub \/ ~r.ok)
           /\ UNCHANGED <<val, out, aborted>>

\* let r = b.downcast::<U>(); b is r's box, Ok or Err
Downcast(s, U) ==
    /\ ~aborted
    /\ UNCHANGED stackvars
    /\ status[s] = "live"
    /\ boxes[s].T \in Erased
    /\ LET r == downcast(boxes[s], U, heap)
       IN  /\ Counted(s, r.ev)
           /\ last' = Last("downcast", s, U, r.res, is_heap(boxes[s]), r.ev)
           /\ boxes' = [boxes EXCEPT ![s] = r.box]
           /\ heap' = r.heap
           /\ ub' = (ub \/ ~r.ok)
           /\ UNCHANGED <<status, val, out, aborted>>

\* let v = b.into_inner()
IntoInner(s) ==
    /\ ~aborted
    /\ UNCHANGED stackvars
    /\ status[s] = "live"
    /\ boxes[s].T \notin Erased
    /\ LET r == into_inner(boxes[s], heap)
       IN  /\ Counted(s, r.ev)
           /\ last' = Last("into_inner", s, boxes[s].space, "ok", is_heap(boxes[s]), r.ev)
           /\ boxes' = [boxes EXCEPT ![s] = NoBox]
           /\ status' = [status EXCEPT ![s] = "extracted"]
           /\ out' = [out EXCEPT ![s] = r.ret]
           /\ heap' = r.heap
           /\ ub' = (ub \/ ~r.ok)
           /\ UNCHANGED <<val, aborted>>

\* let c = b.clone(), into the empty slot t
Clone(s, t) ==
    /\ ~aborted
    /\ UNCHANGED stackvars
    /\ status[s] = "live"
    /\ boxes[s].T \notin Erased
    /\ status[t] = "empty"
    /\ \E r \in clone(boxes[s], heap) :
         /\ Counted(t, r.ev)
         /\ last' = Last("clone", t, boxes[s].space, IF r.ok THEN "ok" ELSE "abort",
                         is_heap(boxes[s]), r.ev)
         /\ IF r.ok
            THEN /\ boxes' = [boxes EXCEPT ![t] = r.box]
                 /\ status' = [status EXCEPT ![t] = "live"]
                 /\ val' = [val EXCEPT ![t] = val[s]]
                 /\ heap' = r.heap
                 /\ UNCHANGED <<out, aborted, ub>>
            ELSE /\ aborted' = TRUE
                 /\ val' = [val EXCEPT ![t] = val[s]]
                 /\ UNCHANGED <<boxes, status, heap, out, ub>>

\* the seeds of a type's values: a zero-sized type has one value
DataOf(ty) == IF size_of(ty) = 0 THEN {MaxData} ELSE Data

Next ==
    \E s \in Slots :
        \/ \E ty \in TypeNames, Space \in SpaceNames :
             \E d \in DataOf(ty), T \in {ty} \cup Erased :
                New(s, [ty |-> ty, d |-> d], T, Space)
        \/ \E ToSpace \in SpaceNames : Resize(s, ToSpace)
        \/ \E U \in TypeNames : Downcast(s, U)
        \/ IntoInner(s)
        \/ \E t \in Slots : Clone(s, t)
        \/ Drop(s)

Spec == Init /\ [][Next]_vars

\* The programs over boxes of comparable values: T is the value's own type,
\* and a type of nonzero size has one value more, so that two boxes can hold
\* different values of one type.
CmpData(ty) == IF size_of(ty) = 0 THEN {MaxData} ELSE 1..(MaxData + 1)

NextCmp ==
    \E s \in Slots :
        \/ \E ty \in TypeNames, Space \in SpaceNames :
             \E d \in CmpData(ty) : New(s, [ty |-> ty, d |-> d], ty, Space)
        \/ \E ToSpace \in SpaceNames : Resize(s, ToSpace)
        \/ IntoInner(s)
        \/ \E t \in Slots : Clone(s, t)
        \/ Drop(s)

SpecCmp == Init /\ [][NextCmp]_vars

\* ------------------------------------------------------------ StackBox
\* mutant: a value exactly as large as the capacity is refused
stack_new_strict(v, T, Space) ==
    IF size_of(v.ty) >= space_size(Space)
    THEN [res |-> "Err", box |-> NoStack, ret |-> bytes_of(v), ev |-> <<>>]
    ELSE [res |-> "Ok",
          box |-> [T |-> T, space |-> Space,
                   buf |-> copy_nonoverlapping(bytes_of(v), uninit(space_size(Space)),
                                               size_of(v.ty)),
                   meta |-> metadata(T, v.ty)],
          ret |-> <<>>, ev |-> <<>>]

\* pub fn new(val: U) -> Result<StackBox<T, Space>, U>: Err(val) when val is
\* larger than Space, otherwise val's bytes are copied into an uninitialized
\* Space and val is forgotten
stack_new(v, T, Space) ==
    IF size_of(v.ty) > space_size(Space)
    THEN [res |-> "Err", box |-> NoStack, ret |-> bytes_of(v), ev |-> <<>>]
    ELSE [res |-> "Ok",
          box |-> [T |-> T, space |-> Space,
                   buf |-> copy_nonoverlapping(bytes_of(v), uninit(space_size(Space)),
                                               size_of(v.ty)),
                   meta |-> metadata(T, v.ty)],
          ret |-> <<>>, ev |-> <<>>]

\* mem::size_of_val::<T>(&*self): the size of the value behind the box
stack_size_of_val(b) == size_of(IF b.T \in Erased THEN b.meta ELSE b.T)

\* StackBox::as_ptr, then Deref: the bytes of the value in the `space` field
stack_deref(b) == SubSeq(b.buf, 1, stack_size_of_val(b))

\* mutant: a capacity exactly as large as the value is refused
stack_resize_strict(b, ToSpace) ==
    LET size == stack_size_of_val(b)
    IN  IF size >= space_size(ToSpace)
        THEN [res |-> "Err", box |-> b, ev |-> <<>>]
        ELSE [res |-> "Ok",
              box |-> [b EXCEPT !.space = ToSpace,
                                !.buf = copy_nonoverlapping(b.buf, uninit(space_size(ToSpace)),
                                                            size)],
              ev |-> <<>>]

\* pub fn resize<ToSpace>(self) -> Result<StackBox<T, ToSpace>, Self>:
\* Err(self) when the value is larger than ToSpace, otherwise size bytes of
\* the old space are copied into an uninitialized ToSpace and self is forgotten
stack_resize(b, ToSpace) ==
    LET size == stack_size_of_val(b)
    IN  IF size > space_size(ToSpace)
        THEN [res |-> "Err", box |-> b, ev |-> <<>>]
        ELSE [res |-> "Ok",
              box |-> [b EXCEPT !.space = ToSpace,
                                !.buf = copy_nonoverlapping(b.buf, uninit(space_size(ToSpace)),
                                                            size)],
              ev |-> <<>>]

\* impl Drop for StackBox: ptr::drop_in_place(&mut **self)
stack_drop(b) == [ev |-> <<"dtor">>]

\* let r = StackBox::<T, Space>::new(v): slot s holds the box of an Ok, or
\* the value an Err handed back
StackNew(s, v, T, Space) ==
    /\ stk[s].status = "empty"
    /\ LET r == stack_new(v, T, Space)
       IN  /\ stk' = [stk EXCEPT ![s] =
                        StackSlot(IF r.res = "Ok" THEN "live" ELSE "returned",
                                  r.box, v, Count(r.ev, "dtor"), r.ret)]
           /\ slast' = SLast("new", s, Space, r.res, NoStack, r.ev)
    /\ UNCHANGED boxvars

\* let r = b.resize::<ToSpace>(): slot s holds the box of the Ok or of the Err
StackResize(s, ToSpace) ==
    /\ stk[s].status = "live"
    /\ LET r == stack_resize(stk[s].box, ToSpace)
       IN  /\ stk' = [stk EXCEPT ![s].box = r.box,
                                 ![s].drops = @ + Count(r.ev, "dtor")]
           /\ slast' = SLast("resize", s, ToSpace, r.res, stk[s].box, r.ev)
    /\ UNCHANGED boxvars

\* drop(b)
StackDrop(s) ==
    /\ stk[s].status = "live"
    /\ LET r == stack_drop(stk[s].box)
       IN  /\ stk' = [stk EXCEPT ![s].status = "dropped", ![s].box = NoStack,
                                 ![s].drops = @ + Count(r.ev, "dtor")]
           /\ slast' = SLast("drop", s, stk[s].box.space, "ok", stk[s].box, r.ev)
    /\ UNCHANGED boxvars

\* the caller drops the value that Err(val) handed back to it
DropReturned(s) ==
    /\ stk[s].status = "returned"
    /\ stk' = [stk EXCEPT ![s].status = "dropped", ![s].ret = <<>>,
                          ![s].drops = @ + 1]
    /\ slast' = SLast("drop_val", s, "none", "ok", NoStack, <<"dtor">>)
    /\ UNCHANGED boxvars

\* the target types of a StackBox: the value's own type, or a trait object
\* with the `unsize` feature
NextStack ==
    \E s \in Slots :
        \/ \E ty \in TypeNames, Space \in SpaceNames :
             \E d \in DataOf(ty), T \in {ty, "dynAny"} :
                StackNew(s, [ty |-> ty, d |-> d], T, Space)
        \/ \E ToSpace \in SpaceNames : StackResize(s, ToSpace)
        \/ StackDrop(s)
        \/ DropReturned(s)

SpecStack == Init /\ [][NextStack]_vars

\* ------------------------------------------------------------ the claims
Live(s) == status[s] = "live"

\* the value moved into slot s fits the capacity sp, by size and alignment
ValueFits(s, sp) ==
    /\ size_of(val[s].ty) <= space_size(sp)
    /\ align_of(val[s].ty) <= space_align(sp)

\* slot s holds a box that the last operation has just constructed
JustBuilt(s) ==
    /\ last.op \in {"new", "clone"}
    /\ last.s = s
    /\ last.res = "ok"

\* C1: a box just constructed from a value whose size and alignment are at
\* most the capacity's (zero-sized values included) has is_heap() false.
C1_FitsIsInline ==
    \A s \in Slots :
        (JustBuilt(s) /\ ValueFits(s, boxes[s].space)) => ~is_heap(boxes[s])

C1_Witness ==
    \E s \in Slots :
        /\ JustBuilt(s)
        /\ ValueFits(s, boxes[s].space)
        /\ size_of(val[s].ty) = space_size(boxes[s].space)
        /\ size_of(val[s].ty) > 0
        /\ ~is_heap(boxes[s])

C3_DestructorOnce ==
    \A s \in Slots :
        /\ status[s] \in {"empty", "live"} => drops[s] = 0
        /\ status[s] = "dropped" => drops[s] = 1

\* a heap placed box was dropped in a capacity its value fits: it was resized
C3_Witness ==
    /\ last.op = "drop"
    /\ last.wasHeap
    /\ ValueFits(last.s, last.arg)
    /\ size_of(val[last.s].ty) > 0
    /\ drops[last.s] = 1

\* slot s holds a live box that is heap placed with a value of nonzero size
OwnsBlock(s) ==
    /\ Live(s)
    /\ is_heap(boxes[s])
    /\ size_of(val[s].ty) # 0

\* C4: a live box owns at most one outstanding allocation, and one exactly
\* when it is heap placed with a value of nonzero size; the allocation is
\* freed exactly once when the box is dropped or unwrapped, never twice and
\* never leaked; no two live boxes hold the same allocation.
C4_OneAllocationOneOwner ==
    /\ ~ub
    /\ \A s \in Slots :
        /\ allocs[s] - frees[s] \in {0, 1}
        /\ frees[s] <= 1
        /\ Live(s) => (OwnsBlock(s) <=> allocs[s] - frees[s] = 1)
        /\ OwnsBlock(s) => BlockAt(heap, boxes[s].ptr) # {}
        /\ status[s] \in {"dropped", "extracted"} => allocs[s] = frees[s]
    /\ \A blk \in heap :
        Cardinality({s \in Slots : OwnsBlock(s) /\ boxes[s].ptr = blk.addr}) = 1
    /\ \A s, t \in Slots :
        (s # t /\ OwnsBlock(s) /\ OwnsBlock(t)) => boxes[s].ptr # boxes[t].ptr

\* one box has been dropped and its block freed while the other still owns one
C4_Witness ==
    /\ last.op = "drop"
    /\ last.wasHeap
    /\ allocs[last.s] = 1
    /\ frees[last.s] = 1
    /\ \E t \in Slots : t # last.s /\ OwnsBlock(t)

\* the lifecycle state of the box of slot s
LifeState(s) ==
    IF status[s] = "empty" THEN "None"
    ELSE IF status[s] = "live"
         THEN (IF is_heap(boxes[s]) THEN "HeapLive" ELSE "InlineLive")
         ELSE "Dropped"

LifeSteps ==
    {<<"None", "InlineLive">>, <<"None", "HeapLive">>, <<"InlineLive", "HeapLive">>,
     <<"InlineLive", "Dropped">>, <<"HeapLive", "Dropped">>}

\* C5: a box for which is_heap() is true stays heap placed under every later
\* resize and downcast; a box's lifecycle only steps from Inline-Live to
\* Heap-Live, from Inline-Live to Dropped and from Heap-Live to Dropped.
C5_HeapNeverInline ==
    [][\A s \in Slots :
          \/ LifeState(s)' = LifeState(s)
          \/ <<LifeState(s), LifeState(s)'>> \in LifeSteps]_vars

\* a heap placed box has been resized to a capacity its value fits inline
C5_Witness ==
    /\ last.op = "resize"
    /\ last.res = "ok"
    /\ last.wasHeap
    /\ Live(last.s)
    /\ is_heap(boxes[last.s])
    /\ size_of(val[last.s].ty) > 0
    /\ ValueFits(last.s, boxes[last.s].space)

\* the step is a returned resize::<last'.arg>() of the inline box of slot s
InlineResizeStep(s) ==
    /\ last'.op = "resize"
    /\ last'.s = s
    /\ last'.res = "ok"
    /\ Live(s)
    /\ ~is_heap(boxes[s])

\* C6: resizing an inline box to a capacity smaller than its value gives a
\* heap placed box with the same content, makes exactly one allocation, and
\* neither drops the value nor frees anything.
C6_PromotionKeepsContent ==
    [][\A s \in Slots :
          (InlineResizeStep(s) /\ size_of(val[s].ty) > space_size(last'.arg)) =>
              /\ status'[s] = "live"
              /\ is_heap(boxes'[s])
              /\ deref(boxes'[s], heap') = deref(boxes[s], heap)
              /\ last'.ev = <<"alloc">>
              /\ allocs'[s] = allocs[s] + 1
              /\ Cardinality(heap') = Cardinality(heap) + 1
              /\ drops' = drops
              /\ frees' = frees]_vars

C6_Witness ==
    /\ last.op = "resize"
    /\ last.res = "ok"
    /\ ~last.wasHeap
    /\ size_of(val[last.s].ty) > space_size(last.arg)
    /\ is_heap(boxes[last.s])
    /\ deref(boxes[last.s], heap) = bytes_of(val[last.s])

ResizeReturned ==
    /\ last.res = "ok"
    /\ Live(last.s)
    /\ boxes[last.s].space = last.arg
    /\ deref(boxes[last.s], heap) = bytes_of(val[last.s])
    /\ (~last.wasHeap /\ ~ValueFits(last.s, last.arg)) => is_heap(boxes[last.s])

C9_DowncastOk ==
    [][\A s \in Slots :
          (last'.op = "downcast" /\ last'.s = s) =>
              /\ (last'.res = "Ok") <=> (val[s].ty = last'.arg)
              /\ (last'.res = "Ok") =>
                    /\ status'[s] = "live"
                    /\ boxes'[s].T = last'.arg
                    /\ boxes'[s].space = boxes[s].space
                    /\ deref(boxes'[s], heap') = deref(boxes[s], heap)
                    /\ is_heap(boxes'[s]) = is_heap(boxes[s])
                    /\ is_heap(boxes[s]) => boxes'[s].ptr = boxes[s].ptr
                    /\ last'.ev = <<>>
                    /\ UNCHANGED <<heap, drops, allocs, frees, ub>>]_vars

C9_Witness ==
    /\ last.op = "downcast"
    /\ last.res = "Ok"
    /\ Live(last.s)
    /\ boxes[last.s].T = val[last.s].ty
    /\ size_of(val[last.s].ty) > 0
    /\ deref(boxes[last.s], heap) = bytes_of(val[last.s])

\* C10: downcast::<U>() with U not the stored value's type returns Err with
\* the box unchanged (content, placement, pointer, metadata), runs no
\* destructor and makes no allocator call; the box is still live, can be
\* dereferenced, downcast again and dropped.
C10_DowncastErr ==
    [][\A s \in Slots :
          (last'.op = "downcast" /\ last'.s = s /\ val[s].ty # last'.arg) =>
              /\ last'.res = "Err"
              /\ boxes'[s] = boxes[s]
              /\ last'.ev = <<>>
              /\ UNCHANGED <<status, val, heap, drops, allocs, frees, out, aborted, ub>>
              /\ status'[s] = "live"
              /\ ~aborted'
              /\ boxes'[s].T \in Erased
              /\ drops'[s] = 0
              /\ deref(boxes'[s], heap') = bytes_of(val[s])]_vars

C10_Witness ==
    /\ last.op = "downcast"
    /\ last.res = "Err"
    /\ Live(last.s)
    /\ boxes[last.s].T \in Erased
    /\ val[last.s].ty # last.arg
    /\ size_of(val[last.s].ty) = size_of(last.arg)

\* C11: into_inner() of a box built from a value returns that value, whether
\* the box was inline or heap placed and whatever resizes came in between.
C11_IntoInnerReturnsValue ==
    \A s \in Slots : status[s] = "extracted" => out[s] = bytes_of(val[s])

\* a value has come back out of a heap box that had been resized to a
\* capacity it fits
C11_Witness ==
    /\ last.op = "into_inner"
    /\ last.wasHeap
    /\ status[last.s] = "extracted"
    /\ ValueFits(last.s, last.arg)
    /\ size_of(val[last.s].ty) > 0
    /\ out[last.s] = bytes_of(val[last.s])

\* C12: into_inner never runs the value's destructor and never drops the box
\* it consumed; it calls the deallocator exactly once when the box was heap
\* placed with a type of nonzero size and not at all otherwise, so that
\* nothing of the box is left and the caller alone owns the value.
C12_IntoInnerReleasesOnlyTheBlock ==
    last.op = "into_inner" =>
        /\ ~ub
        /\ status[last.s] = "extracted"
        /\ boxes[last.s] = NoBox
        /\ drops[last.s] = 0
        /\ Count(last.ev, "dtor") = 0
        /\ Count(last.ev, "alloc") + Count(last.ev, "alloc_null") = 0
        /\ Count(last.ev, "dealloc") =
             (IF last.wasHeap /\ size_of(val[last.s].ty) # 0 THEN 1 ELSE 0)
        /\ frees[last.s] = allocs[last.s]
        /\ \A blk \in heap : \E t \in Slots : OwnsBlock(t) /\ boxes[t].ptr = blk.addr

\* into_inner has released the block of a heap box
C12_Witness ==
    /\ last.op = "into_inner"
    /\ last.wasHeap
    /\ size_of(val[last.s].ty) # 0
    /\ frees[last.s] = 1
    /\ drops[last.s] = 0

\* C13: for a zero-sized value no operation calls the allocator (not even a
\* call that fails) and none calls the deallocator, whatever the capacity and
\* the alignment, also when is_heap() is true.
C13_ZeroSizedNoAllocator ==
    \A s \in Slots :
        (val[s] # NoVal /\ size_of(val[s].ty) = 0) =>
            /\ allocs[s] = 0
            /\ frees[s] = 0
            /\ last.s = s =>
                 /\ Count(last.ev, "alloc") = 0
                 /\ Count(last.ev, "alloc_null") = 0
                 /\ Count(last.ev, "dealloc") = 0

\* a box of a zero-sized value for which is_heap() was true has been dropped
C13_Witness ==
    /\ last.op = "drop"
    /\ last.wasHeap
    /\ size_of(val[last.s].ty) = 0
    /\ status[last.s] = "dropped"
    /\ frees[last.s] = 0

C15_DerefYieldsValue ==
    /\ \A s \in Slots :
         Live(s) =>
            /\ deref(boxes[s], heap) = bytes_of(val[s])
            /\ boxes[s].ptr = INLINE_SENTINEL => as_ptr(boxes[s]).at = "space"
            /\ boxes[s].ptr # INLINE_SENTINEL =>
                 (as_ptr(boxes[s]).at = "heap" /\ as_ptr(boxes[s]).addr = boxes[s].ptr)
            /\ as_ptr(boxes[s]).at = "heap" => as_ptr(boxes[s]).addr # INLINE_SENTINEL
    /\ \A blk \in heap : ~Overlaps(blk, INLINE_SENTINEL, 1)

\* an inline box and a heap box, both of values of nonzero size, are live
C15_Witness ==
    \E s, t \in Slots :
        /\ Live(s) /\ Live(t)
        /\ ~is_heap(boxes[s]) /\ is_heap(boxes[t])
        /\ size_of(val[s].ty) > 0 /\ size_of(val[t].ty) > 0
        /\ deref(boxes[s], heap) = bytes_of(val[s])
        /\ deref(boxes[t], heap) = bytes_of(val[t])

\* C20: when the allocator returns no memory on the heap path, at construction
\* or at a promoting resize, handle_alloc_error ends the process: nothing is
\* returned, no box is made, and no live box ever has a null locator or one
\* that points at no allocation.
C20_AllocFailureAborts ==
    /\ aborted <=> Count(last.ev, "alloc_null") > 0
    /\ aborted <=> last.res = "abort"
    /\ aborted =>
         /\ last.op \in {"new", "resize", "clone"}
         /\ last.ev = <<"alloc_null">>
         /\ last.op \in {"new", "clone"} =>
              status[last.s] = "empty" /\ boxes[last.s] = NoBox
         /\ last.op = "resize" => ~last.wasHeap /\ ~is_heap(boxes[last.s])
    /\ \A s \in Slots :
         /\ Live(s) => boxes[s].ptr # 0
         /\ OwnsBlock(s) => BlockAt(heap, boxes[s].ptr) # {}
         /\ ~Live(s) => boxes[s] = NoBox

\* the allocator has returned null to a construction and the process has ended
C20_Witness ==
    /\ aborted
    /\ last.op = "new"
    /\ last.ev = <<"alloc_null">>
    /\ status[last.s] = "empty"

\* C16: the inline capacity is determined by the byte size of the capacity
\* type alone: a value just stored is placed the same way (inline or not) in
\* every capacity type of the same size as the one it was stored in.
C16_CapacityBySizeAlone ==
    \A s \in Slots :
        JustBuilt(s) =>
            \A sp \in SpaceNames :
                space_size(sp) = space_size(boxes[s].space) =>
                    \A r \in new_unchecked(val[s], boxes[s].T, sp, heap) :
                        r.ok => (is_heap(r.box) <=> is_heap(boxes[s]))

\* every StackBox value is dropped once when its owner has dropped it, and
\* not before
StackDroppedOnce ==
    \A s \in Slots : stk[s].drops = (IF stk[s].status = "dropped" THEN 1 ELSE 0)

\* C17: StackBox::new(val) returns Ok with a box holding val when val is not
\* larger than Space and Err with val itself otherwise; it never runs val's
\* destructor, and the value is dropped once by whoever owns it in the end.
C17_StackNewOkOrErr ==
    /\ StackDroppedOnce
    /\ slast.op = "new" =>
         /\ slast.res =
              (IF size_of(stk[slast.s].val.ty) <= space_size(slast.arg) THEN "Ok" ELSE "Err")
         /\ slast.res = "Ok" =>
              /\ stk[slast.s].status = "live"
              /\ stk[slast.s].box.space = slast.arg
              /\ stack_deref(stk[slast.s].box) = bytes_of(stk[slast.s].val)
              /\ stk[slast.s].ret = <<>>
         /\ slast.res = "Err" =>
              /\ stk[slast.s].status = "returned"
              /\ stk[slast.s].box = NoStack
              /\ stk[slast.s].ret = bytes_of(stk[slast.s].val)
         /\ slast.ev = <<>>
         /\ stk[slast.s].drops = 0

\* new has handed a value of nonzero size back in an Err
C17_Witness ==
    /\ slast.op = "new"
    /\ slast.res = "Err"
    /\ stk[slast.s].status = "returned"
    /\ stk[slast.s].ret = bytes_of(stk[slast.s].val)
    /\ stk[slast.s].ret # <<>>

C19_ComparisonsByValue ==
    \A s, t \in Slots :
        (/\ Live(s) /\ Live(t)
         /\ boxes[s].T \notin Erased
         /\ boxes[s].T = boxes[t].T
         /\ boxes[s].space = boxes[t].space) =>
            /\ eq(boxes[s], boxes[t], heap) = value_eq(bytes_of(val[s]), bytes_of(val[t]))
            /\ eq(boxes[s], boxes[t], heap) <=> val[s] = val[t]
            /\ partial_cmp(boxes[s], boxes[t], heap)
                 = value_cmp(bytes_of(val[s]), bytes_of(val[t]))
            /\ cmp(boxes[s], boxes[t], heap) = value_cmp(bytes_of(val[s]), bytes_of(val[t]))
            /\ hash(boxes[s], heap, 0) = value_hash(bytes_of(val[s]), 0)

\* a heap box and an inline box of one type hold different values, and the
\* heap box holds the smaller one
C19_Witness ==
    \E s, t \in Slots :
        /\ Live(s) /\ Live(t)
        /\ boxes[s].T = boxes[t].T
        /\ boxes[s].space = boxes[t].space
        /\ is_heap(boxes[s]) /\ ~is_heap(boxes[t])
        /\ val[s] # val[t]
        /\ cmp(boxes[s], boxes[t], heap) = "Less"
        /\ ~eq(boxes[s], boxes[t], heap)

\* C21: clone() makes a box whose content equals the source's and leaves the
\* source as it was; the clone's storage is chosen by the construction rule
\* for its capacity, so it is inline whenever the value fits, although the
\* source may be heap placed, and it never has the source's allocation; in
\* every state each value's destructor has run once when its box has been
\* dropped and not at all otherwise.
C21_CloneIndependent ==
    [][/\ \A t \in Slots :
            (last'.op = "clone" /\ last'.s = t /\ last'.res = "ok") =>
                \E s \in Slots \ {t} :
                    /\ Live(s)
                    /\ status'[t] = "live"
                    /\ boxes'[s] = boxes[s]
                    /\ deref(boxes'[s], heap') = deref(boxes[s], heap)
                    /\ deref(boxes'[t], heap') = deref(boxes[s], heap)
                    /\ val'[t] = val[s]
                    /\ boxes'[t].T = boxes[s].T
                    /\ boxes'[t].space = boxes[s].space
                    /\ is_heap(boxes'[t]) <=> ~ValueFits(s, boxes[s].space)
                    /\ (is_heap(boxes'[t]) /\ size_of(val[s].ty) # 0) =>
                          /\ boxes'[t].ptr # boxes[s].ptr
                          /\ BlockAt(heap, boxes'[t].ptr) = {}
                          /\ BlockAt(heap', boxes'[t].ptr) # {}
                    /\ \A blk \in heap : blk \in heap'
                    /\ drops' = drops
       /\ ~ub'
       /\ \A s \in Slots :
            drops'[s] = (IF status'[s] = "dropped" THEN 1 ELSE 0)]_vars

\* a heap placed box has been cloned, and the clone is inline
C21_Witness ==
    /\ last.op = "clone"
    /\ last.res = "ok"
    /\ \E s \in Slots \ {last.s} :
        /\ Live(s) /\ Live(last.s)
        /\ is_heap(boxes[s])
        /\ ~is_heap(boxes[last.s])
        /\ size_of(val[s].ty) # 0
        /\ deref(boxes[last.s], heap) = deref(boxes[s], heap)

C23_AllocatorCalls ==
    /\ last.op \in {"new", "clone"} =>
         /\ Count(last.ev, "alloc") + Count(last.ev, "alloc_null") =
              (IF size_of(val[last.s].ty) # 0 /\ ~ValueFits(last.s, last.arg)
               THEN 1 ELSE 0)
         /\ Count(last.ev, "alloc") = 1 => (Live(last.s) /\ is_heap(boxes[last.s]))
         /\ Count(last.ev, "dealloc") = 0
    /\ (last.op = "resize" /\ last.wasHeap) =>
         Count(last.ev, "alloc") + Count(last.ev, "alloc_null") = 0
    /\ \A s \in Slots : allocs[s] <= 1

\* a zero-sized value that does not fit its capacity has been constructed
\* without a call, after a construction on the heap made one
C23_Witness ==
    /\ last.op = "new"
    /\ last.res = "ok"
    /\ size_of(val[last.s].ty) = 0
    /\ ~ValueFits(last.s, last.arg)
    /\ last.ev = <<>>
    /\ \E s \in Slots : allocs[s] = 1

\* C24: drop runs the value's destructor first and releases the heap block
\* after it, as its last step, so that the block is neither read nor
\* destructed once released; it releases a block only if the box is heap
\* placed and the value's size is nonzero.
C24_DropOrder ==
    last.op = "drop" =>
        /\ last.ev = (IF last.wasHeap /\ size_of(val[last.s].ty) # 0
                      THEN <<"dtor", "dealloc">> ELSE <<"dtor">>)
        /\ \A i, j \in 1..Len(last.ev) :
             (last.ev[i] = "dealloc" /\ last.ev[j] = "dtor") => j < i
        /\ boxes[last.s] = NoBox
        /\ status[last.s] = "dropped"
        /\ ~ub

\* a heap placed box has been dropped: destructor, then release
C24_Witness ==
    /\ last.op = "drop"
    /\ last.wasHeap
    /\ last.ev = <<"dtor", "dealloc">>
    /\ frees[last.s] = 1

\* C25: the metadata in ptr is that of the value the box was built from, in
\* every state and for either placement; every resize leaves it unchanged,
\* and the pointer a dereference resolves carries it.
C25_MetadataFixed ==
    [][\A s \in Slots :
          status'[s] = "live" =>
              /\ boxes'[s].meta = metadata(boxes'[s].T, val'[s].ty)
              /\ runtime_type(boxes'[s]) = val'[s].ty
              /\ as_ptr(boxes'[s]).meta = metadata(boxes'[s].T, val'[s].ty)
              /\ (last'.op = "resize" /\ last'.s = s) =>
                    /\ boxes'[s].meta = boxes[s].meta
                    /\ boxes'[s].T = boxes[s].T]_vars

\* a resize has promoted an inline box of a trait object to the heap
C25_Witness ==
    /\ last.op = "resize"
    /\ last.res = "ok"
    /\ ~last.wasHeap
    /\ Live(last.s)
    /\ is_heap(boxes[last.s])
    /\ boxes[last.s].T \in Erased
    /\ size_of(val[last.s].ty) # 0
    /\ boxes[last.s].meta = val[last.s].ty

\* C26: a resize of a heap placed box, to whatever capacity, leaves the heap
\* address, the metadata and the content as they were, copies nothing into
\* the new buffer, and calls neither allocator nor deallocator: only the
\* capacity type of the box changes.
C26_HeapResizeFrame ==
    [][\A s \in Slots :
          (/\ last'.op = "resize" /\ last'.s = s
           /\ status[s] = "live" /\ is_heap(boxes[s])) =>
              /\ last'.res = "ok"
              /\ last'.ev = <<>>
              /\ boxes' = [boxes EXCEPT ![s].space = last'.arg,
                                        ![s].buf = uninit(space_size(last'.arg))]
              /\ boxes'[s].ptr = boxes[s].ptr
              /\ boxes'[s].meta = boxes[s].meta
              /\ deref(boxes'[s], heap') = deref(boxes[s], heap)
              /\ UNCHANGED <<heap, status, val, drops, allocs, frees, out, aborted, ub>>]_vars

\* a heap placed box has been resized to a capacity that its value would fit,
\* and is still at its heap address
C26_Witness ==
    /\ last.op = "resize"
    /\ last.wasHeap
    /\ last.res = "ok"
    /\ last.ev = <<>>
    /\ Live(last.s)
    /\ boxes[last.s].space = last.arg
    /\ ValueFits(last.s, last.arg)
    /\ size_of(val[last.s].ty) # 0
    /\ BlockAt(heap, boxes[last.s].ptr) # {}

\* the addresses the inline buffer of a box of capacity sp can have: the
\* multiples of the capacity's alignment
SpaceAddrs(sp) == {a \in 1..MaxAddr : a % space_align(sp) = 0}

\* C27: the address a dereference resolves is a multiple of the value's
\* alignment: the inline buffer, wherever it is, when the box is inline; the
\* heap block, which is allocated with at least the value's alignment; and
\* for a zero-sized value that is not inline, the value's alignment itself.
C27_AddressAligned ==
    \A s \in Slots :
        Live(s) =>
            /\ as_ptr(boxes[s]).at = "space" =>
                 \A a \in SpaceAddrs(boxes[s].space) : a % align_of(val[s].ty) = 0
            /\ as_ptr(boxes[s]).at = "heap" =>
                 /\ as_ptr(boxes[s]).addr % align_of(val[s].ty) = 0
                 /\ size_of(val[s].ty) = 0 => as_ptr(boxes[s]).addr = align_of(val[s].ty)
                 /\ \A blk \in BlockAt(heap, boxes[s].ptr) :
                      blk.align % align_of(val[s].ty) = 0

\* an over-aligned zero-sized value resolves to its alignment, while a value
\* of alignment 2 is inline in the other box
C27_Witness ==
    \E s, t \in Slots :
        /\ Live(s) /\ Live(t)
        /\ size_of(val[s].ty) = 0
        /\ align_of(val[s].ty) > space_align(boxes[s].space)
        /\ as_ptr(boxes[s]) = [at |-> "heap", addr |-> align_of(val[s].ty),
                               meta |-> boxes[s].meta]
        /\ as_ptr(boxes[t]).at = "space"
        /\ align_of(val[t].ty) > 1
        /\ size_of(val[t].ty) # 0

\* C28: is_heap() is false exactly when the value's bytes are in the box's own
\* inline buffer: ptr holds the sentinel only on the inline path, a heap
\* address is a nonnull multiple of MIN_ALIGNMENT with the bytes in its block
\* and nothing in the buffer, and the address made up for a zero-sized value
\* is its alignment, at least 2; neither is the sentinel or null.
C28_SentinelMeansInline ==
    \A s \in Slots :
        Live(s) =>
            /\ ~is_heap(boxes[s]) <=> boxes[s].ptr = INLINE_SENTINEL
            /\ ~is_heap(boxes[s]) =>
                 /\ ValueFits(s, boxes[s].space)
                 /\ SubSeq(boxes[s].buf, 1, size_of(val[s].ty)) = bytes_of(val[s])
            /\ is_heap(boxes[s]) =>
                 /\ boxes[s].ptr \notin {0, INLINE_SENTINEL}
                 /\ boxes[s].ptr >= MIN_ALIGNMENT
                 /\ boxes[s].buf = uninit(space_size(boxes[s].space))
                 /\ size_of(val[s].ty) # 0 =>
                      /\ boxes[s].ptr % MIN_ALIGNMENT = 0
                      /\ \E blk \in BlockAt(heap, boxes[s].ptr) :
                           SubSeq(blk.bytes, 1, size_of(val[s].ty)) = bytes_of(val[s])
                 /\ size_of(val[s].ty) = 0 =>
                      /\ boxes[s].ptr = align_of(val[s].ty)
                      /\ allocs[s] = 0

\* one box is inline; the other is heap placed in a capacity its value would
\* fit, with the bytes in its block
C28_Witness ==
    \E s, t \in Slots :
        /\ Live(s) /\ Live(t)
        /\ boxes[s].ptr = INLINE_SENTINEL
        /\ size_of(val[s].ty) # 0
        /\ is_heap(boxes[t])
        /\ size_of(val[t].ty) # 0
        /\ ValueFits(t, boxes[t].space)
        /\ BlockAt(heap, boxes[t].ptr) # {}

\* C29: every deallocator call of drop or into_inner passes the address and
\* the layout (the value's size, its alignment raised to at least 2) of the
\* allocator call that made the block, however the heap box was reached:
\* no call has ever mismatched, and for every live heap box the layout drop
\* would pass, and the one into_inner would pass for a sized type, are the
\* layout of the block at its address.
C29_DeallocMatchesAlloc ==
    /\ ~ub
    /\ \A s \in Slots :
         OwnsBlock(s) =>
            \E blk \in BlockAt(heap, boxes[s].ptr) :
                /\ blk.addr = boxes[s].ptr
                /\ blk.size = size_of(val[s].ty)
                /\ blk.align = Max(align_of(val[s].ty), MIN_ALIGNMENT)
                /\ align_to(for_value(boxes[s]), MIN_ALIGNMENT)
                     = [size |-> blk.size, align |-> blk.align]
                /\ boxes[s].T \notin Erased =>
                     align_to(Layout(boxes[s].T), MIN_ALIGNMENT)
                       = [size |-> blk.size, align |-> blk.align]
    /\ \A s \in Slots :
         status[s] \in {"dropped", "extracted"} => frees[s] = allocs[s]

\* drop has released the block of a heap box that was in a capacity its value
\* would fit, that is, one that a resize had carried over
C29_Witness ==
    /\ last.op = "drop"
    /\ last.wasHeap
    /\ ValueFits(last.s, last.arg)
    /\ Count(last.ev, "dealloc") = 1
    /\ allocs[last.s] = 1
    /\ frees[last.s] = 1
    /\ ~ub

====
